---- MODULE Spec2Model ----
(***************************************************************************)
(* State-machine model of SIMPLE_TASK_LIST.py: the TaskManager class, the  *)
(* tasks.csv file it persists to, the naive-Bayes pipeline it trains, and  *)
(* the interactive menu that drives it.                                    *)
(*                                                                         *)
(* Text that the program converts (capitalize, lower-casing, CSV fields,   *)
(* string comparison) is a sequence of one-character strings, so that the  *)
(* conversions are computed and not assumed.                               *)
(***************************************************************************)
EXTENDS Integers, Sequences, FiniteSets

VARIABLES pc, tasks, file, model, out

vars == <<pc, tasks, file, model, out>>

(***************************************************************************)
(* Bounds of the model.                                                    *)
(***************************************************************************)
\* add is not offered once the table holds this many rows
MaxTasks == 2

(***************************************************************************)
(* Characters and Python's str operations.                                 *)
(***************************************************************************)
LowerLetters == <<"a","b","c","d","e","f","g","h","i","j","k","l","m",
                  "n","o","p","q","r","s","t","u","v","w","x","y","z">>

UpperLetters == <<"A","B","C","D","E","F","G","H","I","J","K","L","M",
                  "N","O","P","Q","R","S","T","U","V","W","X","Y","Z">>

Digits == <<"0","1","2","3","4","5","6","7","8","9">>

IndexOf(c, seq) ==
  IF \E i \in 1..Len(seq) : seq[i] = c
  THEN CHOOSE i \in 1..Len(seq) : seq[i] = c
  ELSE 0

\* the characters the model's texts are made of
Chars ==
  { LowerLetters[i] : i \in 1..Len(LowerLetters) }
    \cup { UpperLetters[i] : i \in 1..Len(UpperLetters) }
    \cup { Digits[i] : i \in 1..Len(Digits) }
    \cup { " ", ".", "_" }

\* per character: its class, its code point (ASCII) and its two cases
CharTable ==
  [c \in Chars |->
     LET u == IndexOf(c, UpperLetters)
         l == IndexOf(c, LowerLetters)
         d == IndexOf(c, Digits)
     IN [upper |-> u > 0,
         lower |-> l > 0,
         digit |-> d > 0,
         ord   |-> IF u > 0 THEN 64 + u
                   ELSE IF l > 0 THEN 96 + l
                   ELSE IF d > 0 THEN 47 + d
                   ELSE IF c = " " THEN 32
                   ELSE IF c = "." THEN 46
                   ELSE 95,
         toLower |-> IF u > 0 THEN LowerLetters[u] ELSE c,
         toUpper |-> IF l > 0 THEN UpperLetters[l] ELSE c]]

IsUpper(c) == CharTable[c].upper
IsLower(c) == CharTable[c].lower
IsDigit(c) == CharTable[c].digit
Ord(c) == CharTable[c].ord
ToLowerChar(c) == CharTable[c].toLower
ToUpperChar(c) == CharTable[c].toUpper

\* str.lower()
lower(s) == [i \in 1..Len(s) |-> ToLowerChar(s[i])]

\* str.capitalize(): first character upper-cased, the rest lower-cased
capitalize(s) ==
  [i \in 1..Len(s) |-> IF i = 1 THEN ToUpperChar(s[i]) ELSE ToLowerChar(s[i])]

\* Python's < on str: lexicographic by code point
RECURSIVE StrLess(_, _)
StrLess(a, b) ==
  IF b = <<>> THEN FALSE
  ELSE IF a = <<>> THEN TRUE
  ELSE IF Ord(Head(a)) # Ord(Head(b)) THEN Ord(Head(a)) < Ord(Head(b))
  ELSE StrLess(Tail(a), Tail(b))

StrLeq(a, b) == a = b \/ StrLess(a, b)

(***************************************************************************)
(* Cell values of the DataFrame.  A cell is a Python str, the float NaN        *)
(* that read_csv puts for a missing field, or a number that read_csv's     *)
(* type inference produced.                                                *)
(***************************************************************************)
StrCell(s)   == [t |-> "str",   v |-> s]
NaNCell      == [t |-> "nan",   v |-> <<>>]
IntCell(s)   == [t |-> "int",   v |-> s]
FloatCell(s) == [t |-> "float", v |-> s]

IsStr(cell) == cell.t = "str"

Columns == <<"description", "priority">>

\* pd.DataFrame(columns=['description', 'priority'])
EmptyFrame == [columns |-> Columns, rows |-> <<>>]

Row(i, d, p) == [index |-> i, description |-> d, priority |-> p]

\* the values of a frame without its index labels
Values(frame) ==
  [i \in 1..Len(frame.rows) |->
     <<frame.rows[i].description, frame.rows[i].priority>>]

\* DataFrame.empty
IsEmpty(frame) == Len(frame.rows) = 0

(***************************************************************************)
(* tasks.csv.  A file is its header line and its data lines, each line the *)
(* sequence of its fields' texts (the delimiter and the quoting that       *)
(* to_csv adds and read_csv strips are not represented).                   *)
(***************************************************************************)
NoFile == [exists |-> FALSE, header |-> <<>>, lines |-> <<>>]

\* the text to_csv writes for a cell: NaN as the empty field (na_rep=''),
\* a float with its decimal point
FieldText(cell) ==
  CASE cell.t = "str"   -> cell.v
    [] cell.t = "nan"   -> <<>>
    [] cell.t = "int"   -> cell.v
    [] cell.t = "float" -> cell.v \o <<".", "0">>

\* DataFrame.to_csv('tasks.csv', index=False): header, then one line per row
\* in row order; the index labels are not written
to_csv(frame) ==
  [exists |-> TRUE,
   header |-> frame.columns,
   lines  |-> [i \in 1..Len(frame.rows) |->
                 <<FieldText(frame.rows[i].description),
                   FieldText(frame.rows[i].priority)>>]]

\* fields read_csv takes for a missing value (among pandas' defaults)
NAValues == { <<>>, <<"N","A">>, <<"N","a","N">>, <<"n","a","n">>,
              <<"n","u","l","l">>, <<"N","U","L","L">> }

IsNA(f) == f \in NAValues

IsIntText(f) == Len(f) > 0 /\ \A i \in 1..Len(f) : IsDigit(f[i])

RECURSIVE StripZeros(_)
StripZeros(f) ==
  IF Len(f) > 1 /\ Head(f) = "0" THEN StripZeros(Tail(f)) ELSE f

\* read_csv's inference of one column's dtype from its fields
ColumnKind(fields) ==
  IF Len(fields) = 0 THEN "object"
  ELSE IF \A i \in 1..Len(fields) : IsNA(fields[i]) THEN "float"
  ELSE IF \A i \in 1..Len(fields) : IsIntText(fields[i]) THEN "int"
  ELSE IF \A i \in 1..Len(fields) : IsIntText(fields[i]) \/ IsNA(fields[i])
       THEN "float"
  ELSE "object"

\* the cell read_csv makes of field f in a column of the given dtype
ParseField(kind, f) ==
  IF IsNA(f) THEN NaNCell
  ELSE CASE kind = "int"    -> IntCell(StripZeros(f))
         [] kind = "float"  -> FloatCell(StripZeros(f))
         [] kind = "object" -> StrCell(f)

\* pd.read_csv('tasks.csv') of an existing file: the header gives the
\* columns, the rows get a fresh RangeIndex 0..n-1
read_csv(f) ==
  LET n     == Len(f.lines)
      col(k) == [i \in 1..n |-> f.lines[i][k]]
      dk    == ColumnKind(col(1))
      pk    == ColumnKind(col(2))
  IN [columns |-> f.header,
      rows    |-> [i \in 1..n |->
                     Row(i - 1, ParseField(dk, f.lines[i][1]),
                                ParseField(pk, f.lines[i][2]))]]

(***************************************************************************)
(* The classifier pipeline: CountVectorizer(stop_words='english',          *)
(* min_df=1) followed by MultinomialNB().                                  *)
(***************************************************************************)
\* English stop words the vectorizer drops (a part of scikit-learn's list)
StopWords == { <<"t","o">>, <<"t","h","e">>, <<"a","n">>, <<"o","f">> }

\* \w of the token pattern
IsWordChar(c) == IsUpper(c) \/ IsLower(c) \/ IsDigit(c) \/ c = "_"

\* the maximal runs of word characters of s, in order
RECURSIVE WordRuns(_, _)
WordRuns(s, cur) ==
  IF s = <<>> THEN (IF cur = <<>> THEN <<>> ELSE <<cur>>)
  ELSE IF IsWordChar(Head(s)) THEN WordRuns(Tail(s), Append(cur, Head(s)))
  ELSE (IF cur = <<>> THEN <<>> ELSE <<cur>>) \o WordRuns(Tail(s), <<>>)

\* the analyzer: lower-case, tokens of two or more word characters
\* (token_pattern r"(?u)\b\w\w+\b"), stop words removed
Tokens(s) ==
  SelectSeq(WordRuns(lower(s), <<>>),
            LAMBDA w : Len(w) >= 2 /\ w \notin StopWords)

\* the training pairs train_model hands to fit: (description, priority)
TrainingData(frame) ==
  [i \in 1..Len(frame.rows) |->
     [description |-> frame.rows[i].description,
      priority    |-> frame.rows[i].priority]]

\* the vocabulary the vectorizer learns
Vocabulary(data) ==
  UNION { LET toks == Tokens(data[i].description.v)
          IN { toks[k] : k \in 1..Len(toks) } :
          i \in 1..Len(data) }

\* fit raises: a document that is no str (NaN: ValueError, a number:
\* AttributeError on .lower()), an empty vocabulary (ValueError; zero
\* documents, or only stop words and one-character tokens), or a missing
\* label
FitFails(data) ==
  \/ \E i \in 1..Len(data) : ~IsStr(data[i].description)
  \/ Vocabulary(data) = {}
  \/ \E i \in 1..Len(data) : data[i].priority = NaNCell

Unfitted == [fitted |-> FALSE, data |-> <<>>]

\* the pipeline after a successful fit: it is a function of the data alone
Fitted(data) == [fitted |-> TRUE, data |-> data]

\* classes_ of the classifier
Classes(m) == { m.data[i].priority : i \in 1..Len(m.data) }

RECURSIVE CountIn(_, _)
CountIn(w, toks) ==
  IF toks = <<>> THEN 0
  ELSE (IF Head(toks) = w THEN 1 ELSE 0) + CountIn(w, Tail(toks))

RECURSIVE ClassTokens(_, _, _)
\* all tokens of the documents of class c, from document i on
ClassTokens(m, c, i) ==
  IF i > Len(m.data) THEN <<>>
  ELSE (IF m.data[i].priority = c THEN Tokens(m.data[i].description.v)
        ELSE <<>>) \o ClassTokens(m, c, i + 1)

ClassCount(m, c) ==
  Cardinality({ i \in 1..Len(m.data) : m.data[i].priority = c })

RECURSIVE Power(_, _)
Power(b, e) == IF e = 0 THEN 1 ELSE b * Power(b, e - 1)

RECURSIVE Likelihood(_, _, _)
\* product over the query's in-vocabulary tokens of (count(c, w) + alpha),
\* alpha = 1
Likelihood(m, c, toks) ==
  IF toks = <<>> THEN 1
  ELSE (CountIn(Head(toks), ClassTokens(m, c, 1)) + 1)
       * Likelihood(m, c, Tail(toks))

\* the query's tokens the vectorizer keeps: those of the vocabulary
Known(m, s) == SelectSeq(Tokens(s), LAMBDA w : w \in Vocabulary(m.data))

\* the joint likelihood of class c and document s as a fraction num/den
\* (the common factor 1/len(data) of the priors left out)
ScoreNum(m, c, s) == ClassCount(m, c) * Likelihood(m, c, Known(m, s))
ScoreDen(m, c, s) ==
  Power(Len(ClassTokens(m, c, 1)) + Cardinality(Vocabulary(m.data)),
        Len(Known(m, s)))

\* model.predict of one document: the classes of greatest joint
\* likelihood.  The library compares rounded log-probabilities and takes
\* the first maximum; where the exact values tie, any of the tied classes
\* is allowed here.
Predict(m, s) ==
  { c \in Classes(m) :
      \A c2 \in Classes(m) :
        ScoreNum(m, c, s) * ScoreDen(m, c2, s)
          >= ScoreNum(m, c2, s) * ScoreDen(m, c, s) }

(***************************************************************************)
(* Inputs typed at the prompts, and tasks.csv files found at first start.  *)
(***************************************************************************)
Low    == <<"L","o","w">>
Medium == <<"M","e","d","i","u","m">>
High   == <<"H","i","g","h">>

\* descriptions typed: two that differ in case only, and the empty line
Descriptions == { <<"a","b">>, <<"A","b">>, <<>> }

\* priorities typed, before .capitalize()
RawPriorities == { <<"l","o","w">>, <<"H","I","G","H">>, Medium,
                   <<"u","r","g","e","n","t">> }

FrameOf(pairs) ==
  [columns |-> Columns,
   rows    |-> [i \in 1..Len(pairs) |->
                  Row(i - 1, StrCell(pairs[i][1]), StrCell(pairs[i][2]))]]

\* tasks.csv before the first start: absent, or left by an earlier session
InitFiles ==
  { NoFile,
    to_csv(FrameOf(<< <<(<<"a","b">>), Low>> >>)),
    to_csv(FrameOf(<< <<(<<"a","b">>), Low>>, <<(<<"c","d">>), High>> >>)),
    to_csv(FrameOf(<< <<(<<"t","o">>), High>> >>)),
    to_csv(FrameOf(<< <<(<<"0","7">>), Medium>> >>)) }

(***************************************************************************)
(* What the program printed last.                                          *)
(***************************************************************************)
Printed(msg) == [msg |-> msg, description |-> <<>>, priority |-> <<>>, shown |-> <<>>]

Init ==
  /\ pc = "off"
  /\ tasks = EmptyFrame
  /\ file \in InitFiles
  /\ model = Unfitted
  /\ out = Printed("")

(***************************************************************************)
(* TaskManager's methods.  Each gives the values the method leaves in      *)
(* tasks, file and model, and whether it returned or raised.               *)
(***************************************************************************)
\* load_tasks: read_csv, FileNotFoundError swallowed
load_tasks(frame, f) == IF f.exists THEN read_csv(f) ELSE frame

\* save_tasks: the file after to_csv
save_tasks(frame) == to_csv(frame)

\* train_model: the pipeline it leaves in self.model (a fresh, unfitted one
\* if fit raised)
train_model(frame) ==
  IF FitFails(TrainingData(frame)) THEN Unfitted
  ELSE Fitted(TrainingData(frame))

\* pd.concat([self.tasks, new_task], ignore_index=True)
Concat(frame, description, priority) ==
  LET n == Len(frame.rows) IN
  [columns |-> frame.columns,
   rows    |-> [i \in 1..(n + 1) |->
                  IF i <= n
                  THEN Row(i - 1, frame.rows[i].description, frame.rows[i].priority)
                  ELSE Row(n, StrCell(description), StrCell(priority))]]

\* add_task with the two calls exchanged (train, then save): a failed fit
\* leaves the file as it was
add_task_train_first(description, priority) ==
  LET appended == Concat(tasks, description, priority) IN
  /\ tasks' = appended
  /\ model' = train_model(appended)
  /\ file' = IF model'.fitted THEN save_tasks(appended) ELSE file
  /\ pc' = IF model'.fitted THEN "menu" ELSE "crashed"

\* add_task: append, save, train; if train raises the exception leaves
\* main_menu and the process ends
add_task(description, priority) ==
  LET appended == Concat(tasks, description, priority) IN
  /\ tasks' = appended
  /\ file' = save_tasks(appended)
  /\ model' = train_model(appended)
  /\ pc' = IF model'.fitted THEN "menu" ELSE "crashed"

\* the mask with a comparison that ignores case
MaskNotEqualIgnoreCase(frame, description) ==
  [columns |-> frame.columns,
   rows    |-> SelectSeq(frame.rows,
                         LAMBDA r : ~(IsStr(r.description)
                                      /\ lower(r.description.v) = lower(description)))]

\* self.tasks[self.tasks['description'] != description]: the rows the mask
\* keeps, with the index labels they had
MaskNotEqual(frame, description) ==
  [columns |-> frame.columns,
   rows    |-> SelectSeq(frame.rows,
                         LAMBDA r : r.description # StrCell(description))]

\* remove_task with a train_model call after the save, as in add_task
remove_task_retrain(description) ==
  LET kept == MaskNotEqual(tasks, description) IN
  /\ tasks' = kept
  /\ file' = save_tasks(kept)
  /\ model' = train_model(kept)
  /\ pc' = IF model'.fitted THEN "menu" ELSE "crashed"

\* remove_task: filter, save; the model is not touched
remove_task(description) ==
  LET kept == MaskNotEqual(tasks, description) IN
  /\ tasks' = kept
  /\ file' = save_tasks(kept)
  /\ model' = model
  /\ pc' = "menu"

\* the order by severity: High, then Medium, then Low
SeverityRank(cell) ==
  IF cell = StrCell(<<"H","i","g","h">>) THEN 0
  ELSE IF cell = StrCell(<<"M","e","d","i","u","m">>) THEN 1
  ELSE 2

SeverityLeq(a, b) == SeverityRank(a) <= SeverityRank(b)

\* the order sort_values(by='priority') sorts by: Python's order on str,
\* missing values last
PriorityLeq(a, b) ==
  IF ~IsStr(b) THEN TRUE
  ELSE IF ~IsStr(a) THEN FALSE
  ELSE StrLeq(a.v, b.v)

Orderings(n) ==
  { f \in [1..n -> 1..n] : \A i, j \in 1..n : f[i] = f[j] => i = j }

\* the outcomes of sort_values(by='priority', inplace=True): the rows, with
\* their index labels, in an order sorted by priority (the default
\* quicksort does not fix the order of equal keys)
SortValues(frame) ==
  { [columns |-> frame.columns,
     rows    |-> [i \in 1..Len(frame.rows) |-> frame.rows[f[i]]]] :
    f \in { g \in Orderings(Len(frame.rows)) :
              \A i \in 1..(Len(frame.rows) - 1) :
                PriorityLeq(frame.rows[g[i]].priority,
                            frame.rows[g[i + 1]].priority) } }

\* prioritize_tasks without its save_tasks call
prioritize_tasks_unsaved ==
  \E sorted \in SortValues(tasks) :
    /\ tasks' = sorted
    /\ file' = file
    /\ model' = model
    /\ pc' = "menu"

\* prioritize_tasks: sort in place, save
prioritize_tasks ==
  \E sorted \in SortValues(tasks) :
    /\ tasks' = sorted
    /\ file' = save_tasks(sorted)
    /\ model' = model
    /\ pc' = "menu"

\* list_tasks: prints, changes nothing
list_tasks ==
  /\ out' = IF IsEmpty(tasks) THEN Printed("No tasks available.")
            ELSE [Printed("tasks") EXCEPT !.shown = tasks.rows]
  /\ UNCHANGED <<tasks, file, model, pc>>

\* self.tasks[self.tasks['priority'] == label]['description']: a Series
\* that keeps the rows' index labels
Matching(frame, label) ==
  SelectSeq(frame.rows, LAMBDA r : r.priority = label)

\* recommend_task.  random.choice(series) draws i below len(series) and
\* evaluates series[i], which pandas looks up among the index LABELS:
\* KeyError if no row of the series is labelled i; IndexError if the series
\* is empty.
recommend_task ==
  IF IsEmpty(tasks)
  THEN /\ out' = Printed("No tasks available for recommendations.")
       /\ UNCHANGED <<tasks, file, model, pc>>
  ELSE \E label \in Predict(model, tasks.rows[1].description.v) :
         LET series == Matching(tasks, label) IN
         /\ UNCHANGED <<tasks, file, model>>
         /\ IF Len(series) = 0
            THEN /\ out' = Printed("IndexError in recommend_task")
                 /\ pc' = "crashed"
            ELSE \E i \in 0..(Len(series) - 1) :
                   IF \E k \in 1..Len(series) : series[k].index = i
                   THEN LET k == CHOOSE k \in 1..Len(series) : series[k].index = i
                        IN /\ out' = [Printed("Recommended task") EXCEPT
                                        !.description = series[k].description.v,
                                        !.priority = label.v]
                           /\ pc' = "menu"
                   ELSE /\ out' = Printed("KeyError in recommend_task")
                        /\ pc' = "crashed"

(***************************************************************************)
(* The process: the constructor, then main_menu's loop, one action per     *)
(* choice.  pc is "off" before the program is run, "menu" while input() of *)
(* the menu waits, "crashed" after an uncaught exception, "exited" after   *)
(* choice 6.                                                               *)
(***************************************************************************)
\* TaskManager(): the empty frame, load_tasks, train_model; then main_menu.
\* Running the program again after it ended starts from the file alone.
Start ==
  /\ pc \in {"off", "crashed", "exited"}
  /\ tasks' = load_tasks(EmptyFrame, file)
  /\ model' = train_model(tasks')
  /\ pc' = IF model'.fitted THEN "menu" ELSE "crashed"
  /\ out' = IF model'.fitted THEN Printed("Task Management App")
            ELSE Printed("Error in __init__")
  /\ UNCHANGED file

\* main_menu without the test of the priority
AnyPriority(priority) == TRUE

\* the test of line 94
ValidPriority(priority) == priority \in {Low, Medium, High}

\* choice "1" with the two lines typed after it
AddChosen(description, raw) ==
  LET priority == capitalize(raw) IN
  /\ pc = "menu"
  /\ IF ~ValidPriority(priority)
     THEN /\ out' = Printed("Invalid priority! Please enter Low, Medium, or High.")
          /\ UNCHANGED <<tasks, file, model, pc>>
     ELSE /\ add_task(description, priority)
          /\ out' = IF pc' = "menu" THEN Printed("Task added successfully.")
                    ELSE Printed("ValueError in add_task")

ChoiceAdd ==
  /\ Len(tasks.rows) < MaxTasks
  /\ \E description \in Descriptions, raw \in RawPriorities :
       AddChosen(description, raw)

\* choice "2" with the line typed after it
RemoveChosen(description) ==
  /\ pc = "menu"
  /\ remove_task(description)
  /\ out' = Printed("Task removed successfully.")

ChoiceRemove == \E description \in Descriptions : RemoveChosen(description)

\* choice "3"
ChoiceList ==
  /\ pc = "menu"
  /\ list_tasks

\* choice "4"
ChoicePrioritize ==
  /\ pc = "menu"
  /\ prioritize_tasks
  /\ out' = Printed("Tasks prioritized successfully.")

\* choice "5"
ChoiceRecommend ==
  /\ pc = "menu"
  /\ recommend_task

\* choice "6"
ChoiceExit ==
  /\ pc = "menu"
  /\ pc' = "exited"
  /\ out' = Printed("Goodbye!")
  /\ UNCHANGED <<tasks, file, model>>

\* any other text
ChoiceInvalid ==
  /\ pc = "menu"
  /\ out' = Printed("Invalid option. Please select a valid option.")
  /\ UNCHANGED <<tasks, file, model, pc>>

Next ==
  \/ Start
  \/ ChoiceAdd
  \/ ChoiceRemove
  \/ ChoiceList
  \/ ChoicePrioritize
  \/ ChoiceRecommend
  \/ ChoiceExit
  \/ ChoiceInvalid

Spec == Init /\ [][Next]_vars

(***************************************************************************)
(* Properties.                                                             *)
(***************************************************************************)
LastRow(frame) == frame.rows[Len(frame.rows)]

\* how often value x occurs in sequence seq
Occurrences(x, seq) == Cardinality({ i \in 1..Len(seq) : seq[i] = x })

SameMultiset(a, b) ==
  /\ Len(a) = Len(b)
  /\ \A i \in 1..Len(a) : Occurrences(a[i], a) = Occurrences(a[i], b)

\* the index labels of the frame are 0..n-1 in row order
FreshIndex(frame) == \A i \in 1..Len(frame.rows) : frame.rows[i].index = i - 1

\* C1: whenever recommend is chosen at the menu, recommend_task returns to
\* the menu; on an empty store it reports that no tasks are available, and
\* on a non-empty store it reports the description of a stored task whose
\* stored priority is a label the model predicts for the first row.
C1_RecommendCompletes ==
  [][ChoiceRecommend =>
       /\ pc' = "menu"
       /\ IF IsEmpty(tasks)
          THEN out' = Printed("No tasks available for recommendations.")
          ELSE /\ out'.msg = "Recommended task"
               /\ StrCell(out'.priority)
                    \in Predict(model, tasks.rows[1].description.v)
               /\ \E i \in 1..Len(tasks.rows) :
                    /\ tasks.rows[i].description = StrCell(out'.description)
                    /\ tasks.rows[i].priority = StrCell(out'.priority)]_vars

\* C2: a start that finds no tasks.csv ends at the menu with the empty
\* two-column table.
C2_MissingFileStartsEmpty ==
  [][(Start /\ ~file.exists) => (pc' = "menu" /\ tasks' = EmptyFrame)]_vars

\* C3: remove_task(d) leaves no row whose description is exactly d, keeps
\* every other row with its values in the same relative order, and leaves
\* the table as it was when no row matches.
C3_RemoveDeletesExactMatches ==
  [][\A d \in Descriptions :
       RemoveChosen(d) =>
         /\ \A i \in 1..Len(tasks'.rows) : tasks'.rows[i].description # StrCell(d)
         /\ Values(tasks') = SelectSeq(Values(tasks), LAMBDA v : v[1] # StrCell(d))
         /\ tasks'.columns = tasks.columns
         /\ (\A i \in 1..Len(tasks.rows) : tasks.rows[i].description # StrCell(d))
              => tasks' = tasks]_vars

\* C3 witness: a removal deleted the rows "ab" the model had been fitted
\* with and kept the row "Ab", which differs in case only.
C3_Witness ==
  /\ pc = "menu"
  /\ out = Printed("Task removed successfully.")
  /\ \E i \in 1..Len(model.data) : model.data[i].description = StrCell(<<"a","b">>)
  /\ \A i \in 1..Len(tasks.rows) : tasks.rows[i].description # StrCell(<<"a","b">>)
  /\ \E i \in 1..Len(tasks.rows) : tasks.rows[i].description = StrCell(<<"A","b">>)

\* C4: after every add_task or remove_task that returned, the pairs the
\* model was last fitted with are the pairs of the store.
C4_ModelFitsCurrentTasks ==
  [][((ChoiceAdd \/ ChoiceRemove)
        /\ out' \in {Printed("Task added successfully."),
                     Printed("Task removed successfully.")})
       => /\ model'.fitted
          /\ { <<model'.data[i].description, model'.data[i].priority>> :
                 i \in 1..Len(model'.data) }
               = { Values(tasks')[i] : i \in 1..Len(tasks'.rows) }]_vars

\* C5: remove_task, prioritize_tasks and list_tasks leave the model, that
\* is the data it was last fitted with, as it was.
C5_RemoveKeepsModel ==
  [][(ChoiceRemove \/ ChoicePrioritize \/ ChoiceList) => model' = model]_vars

\* C5 witness: after a removal the model is still the one fitted with a row
\* the store no longer has.
C5_Witness ==
  /\ pc = "menu"
  /\ out = Printed("Task removed successfully.")
  /\ model.fitted
  /\ Len(tasks.rows) < Len(model.data)

\* C6: after prioritize_tasks the rows are in non-decreasing order of the
\* plain string order of their priority, and the store holds the same
\* multiset of (description, priority) rows as before.
C6_PrioritizeSortsByString ==
  [][ChoicePrioritize =>
       /\ \A i \in 1..(Len(tasks'.rows) - 1) :
            StrLeq(tasks'.rows[i].priority.v, tasks'.rows[i + 1].priority.v)
       /\ SameMultiset(Values(tasks'), Values(tasks))]_vars

\* C6 witness: prioritize moved a row: "Low" now stands before "Medium",
\* or "High" before "Low", with the index labels out of order.
C6_Witness ==
  /\ pc = "menu"
  /\ out = Printed("Tasks prioritized successfully.")
  /\ Len(tasks.rows) >= 2
  /\ tasks.rows[1].index > tasks.rows[2].index
  /\ StrLess(tasks.rows[1].priority.v, tasks.rows[2].priority.v)

\* C7: whenever the menu waits for input, the file is what save_tasks
\* writes for the table in memory: the same rows in the same order.
C7_FileMirrorsTable == pc = "menu" => file = to_csv(tasks)

\* C7 witness: the menu waits after a prioritize that reordered the rows,
\* and the file has the rows in the new order.
C7_Witness ==
  /\ pc = "menu"
  /\ out = Printed("Tasks prioritized successfully.")
  /\ ~FreshIndex(tasks)
  /\ file = to_csv(tasks)

\* C8: load_tasks of the file save_tasks writes gives back the table: the
\* same columns, the same rows in the same order, the same values.
C8_SaveLoadRoundTrip ==
  pc = "menu" =>
    LET loaded == load_tasks(EmptyFrame, save_tasks(tasks)) IN
    /\ loaded.columns = tasks.columns
    /\ Values(loaded) = Values(tasks)

\* C9: at the menu, an add whose priority is not Low, Medium or High after
\* capitalize is reported and skipped (table, file and model as they were,
\* back at the menu), and a row that an add appends has one of the three
\* priorities.
C9_InvalidPrioritySkipped ==
  [][\A d \in Descriptions, raw \in RawPriorities :
       AddChosen(d, raw) =>
         /\ capitalize(raw) \notin {Low, Medium, High} =>
              /\ out' = Printed("Invalid priority! Please enter Low, Medium, or High.")
              /\ tasks' = tasks /\ file' = file /\ model' = model
              /\ pc' = "menu"
         /\ tasks' # tasks =>
              LastRow(tasks').priority \in {StrCell(Low), StrCell(Medium), StrCell(High)}]_vars

\* C9 witness: the menu waits after an add was rejected for its priority.
C9_Witness ==
  /\ pc = "menu"
  /\ out = Printed("Invalid priority! Please enter Low, Medium, or High.")
  /\ file = to_csv(tasks)

\* C10: when training fails in add_task, the new row is already the last
\* row of the table in memory and of the file.
C10_FailedTrainKeepsRow ==
  [][\A d \in Descriptions, raw \in RawPriorities :
       (AddChosen(d, raw) /\ pc' = "crashed") =>
         /\ Values(tasks') =
              Append(Values(tasks), <<StrCell(d), StrCell(capitalize(raw))>>)
         /\ file'.exists
         /\ Len(file'.lines) = Len(file.lines) + 1
         /\ file'.lines[Len(file'.lines)] = <<d, capitalize(raw)>>
         /\ file' = to_csv(tasks')]_vars

\* C10 witness: add_task ended in the training error, and the row it was
\* given is in the file.
C10_Witness ==
  /\ pc = "crashed"
  /\ out = Printed("ValueError in add_task")
  /\ ~model.fitted
  /\ Len(file.lines) >= 1
  /\ file.lines[Len(file.lines)][1] = LastRow(tasks).description.v

====
